---- MODULE Spec2Model ----
(***************************************************************************)
(* A model of tensor2tensor/models/transformer_vae.py (the AE Transformer). *)
(*                                                                         *)
(* Tensors are small: a tensor of the latent space is one row of            *)
(* hidden_size components.  Real numbers are held in fixed point, in        *)
(* hundredths (One is 1.0); products round towards minus infinity.          *)
(* Learnt layers whose weights the file does not fix (convolutions, the     *)
(* transformer encoder and decoder) produce a value chosen                  *)
(* nondeterministically, or a term that records what they were applied to.  *)
(* Random draws (tf.random_uniform) are nondeterministic choices.           *)
(***************************************************************************)
EXTENDS Integers, Sequences, FiniteSets

\* ------------------------------------------------------------------ bounds
\* hparams.hidden_size and hparams.v_size, scaled down.
hidden_size == 2
v_size == 2
\* Largest magnitude of a component of a row of the means table.
MaxC == 2
\* Largest number of rows of x_flat handed to nearest.
MaxRows == 2
\* Largest `steps` argument of a schedule (hparams.startup_steps, scaled down).
MaxSteps == 3
\* Largest global step the model reaches.
MaxGlobalStep == 4

\* ------------------------------------------------------------- fixed point
One == 10 * 10

Mul(a, b) == (a * b) \div One

Min(a, b) == IF a <= b THEN a ELSE b

Max(a, b) == IF a >= b THEN a ELSE b

RECURSIVE Pow(_, _)
Pow(b, e) == IF e = 0 THEN 1 ELSE b * Pow(b, e - 1)

Idx == 1..hidden_size

Codes == 1..v_size

RECURSIVE SumTo(_, _)
SumTo(f, n) == IF n = 0 THEN 0 ELSE f[n] + SumTo(f, n - 1)

Dot(a, b) == SumTo([i \in Idx |-> a[i] * b[i]], hidden_size)

\* ------------------------------------------- common_layers decay schedules
\* min_value=0.01, the default of both schedules, in hundredths.
min_value == 1

\* progress * (1.0 - min_value) + min_value, progress = min(step/max_step, 1.0)
inverse_lin_decay(max_step, step) ==
  LET progress == Min((step * One) \div max_step, One)
  IN  Mul(progress, One - min_value) + min_value

\* inv_base ** max(max_step - step, 0), inv_base = min_value ** (1/max_step):
\* the largest a (in hundredths) with (a/One)^max_step <= (min_value/One)^r.
\* With max_step = 0 inv_base is exp(-inf) = 0 and 0 ** 0 is 1.
ExpDecay(max_step, step) ==
  LET r == Max(max_step - step, 0)
      bound == Pow(min_value, r) * Pow(One, max_step - r)
  IN  IF max_step = 0 THEN One
      ELSE CHOOSE a \in 0..One :
             /\ Pow(a, max_step) <= bound
             /\ a < One => Pow(a + 1, max_step) > bound

\* The schedule, tabulated over the steps the model reaches.
ExpDecayTable ==
  [max_step \in 0..MaxSteps |-> [step \in 0..MaxGlobalStep |-> ExpDecay(max_step, step)]]

inverse_exp_decay(max_step, step) == ExpDecayTable[max_step][step]

\* ---------------------------------------------------------------------- mix
\* alpha_p of mix: the schedule's value scaled into [min_prob, max_prob].
MixAlphaP(steps, min_prob, max_prob, mode, step) ==
  LET alpha_p == IF mode = "lin" THEN inverse_lin_decay(steps, step)
                 ELSE inverse_exp_decay(steps, step)
  IN  Mul(alpha_p, max_prob - min_prob) + min_prob

MixSwapped(x1, x2, steps, min_prob, max_prob, mode, simple, step, u) ==
  LET alpha_p == MixAlphaP(steps, min_prob, max_prob, mode, step)
      alpha == [i \in DOMAIN x1 |-> IF u[i] < alpha_p THEN One ELSE 0]
  IN  IF simple
      THEN [i \in DOMAIN x1 |-> Mul(alpha_p, x2[i]) + Mul(One - alpha_p, x1[i])]
      ELSE [i \in DOMAIN x1 |-> Mul(alpha[i], x2[i]) + Mul(One - alpha[i], x1[i])]

\* mix(x1, x2, steps, min_prob, max_prob, mode, simple) at global step `step`;
\* u is the draw of tf.random_uniform(tf.shape(x1)), one value of [0, 1) per
\* element.
mix(x1, x2, steps, min_prob, max_prob, mode, simple, step, u) ==
  LET alpha_p == MixAlphaP(steps, min_prob, max_prob, mode, step)
      alpha == [i \in DOMAIN x1 |-> IF u[i] < alpha_p THEN One ELSE 0]
  IN  IF simple
      THEN [i \in DOMAIN x1 |-> Mul(alpha_p, x1[i]) + Mul(One - alpha_p, x2[i])]
      ELSE [i \in DOMAIN x1 |-> Mul(alpha[i], x1[i]) + Mul(One - alpha[i], x2[i])]

\* ------------------------------------------------------------------ nearest
\* a/sqrt(p) >= b/sqrt(q) for p, q >= 1, in exact arithmetic.
ScoreGE(a, p, b, q) ==
  IF a >= 0 /\ b <= 0 THEN TRUE
  ELSE IF a < 0 /\ b >= 0 THEN FALSE
  ELSE IF a >= 0 THEN a * a * q >= b * b * p
  ELSE a * a * q <= b * b * p

\* The squared norm tf.nn.l2_normalize divides by: max(sum(m^2), epsilon).
\* A zero row keeps a zero dot product, so any positive divisor serves.
NormSq(m) == Max(Dot(m, m), 1)

\* Row k of -dist = matmul(x_flat, l2_normalize(means), transpose_b=True) is at
\* least row j.
CloserOrEqual(x, means, k, j) ==
  ScoreGE(Dot(x, means[k]), NormSq(means[k]), Dot(x, means[j]), NormSq(means[j]))

\* tf.nn.top_k(-dist, k=1): the largest entry, the lower index on a tie.
NearestIdx(x, means) ==
  CHOOSE k \in Codes :
    /\ \A j \in Codes : CloserOrEqual(x, means, k, j)
    /\ \A j \in 1..(k - 1) : ~CloserOrEqual(x, means, j, k)

OneHot(k) == [j \in Codes |-> IF j = k THEN 1 ELSE 0]

\* tf.argmax: the index of the largest entry, the lowest on a tie.
Argmax(v) ==
  CHOOSE k \in DOMAIN v :
    /\ \A j \in DOMAIN v : v[k] >= v[j]
    /\ \A j \in DOMAIN v : j < k => v[j] < v[k]

\* nearest(x, means, hparams): one one-hot row per row of x_flat.
nearest(x, means) == [r \in DOMAIN x |-> OneHot(NearestIdx(x[r], means))]

SqDist(a, b) == SumTo([i \in Idx |-> (a[i] - b[i]) * (a[i] - b[i])], hidden_size)

\* kmeans(x, means, hparams, name): x_means_hot and
\* reduce_mean(reduce_sum(square(x - x_means), -1)) * 10.0, in hundredths.
kmeans(x, means) ==
  LET x_means_hot == nearest(x, means)
      x_means == [r \in DOMAIN x |-> means[Argmax(x_means_hot[r])]]
      kl == [r \in DOMAIN x |-> SqDist(x[r], x_means[r])]
  IN  <<x_means_hot, (SumTo(kl, Len(x)) * One * 10) \div Len(x)>>

\* ------------------------------------------------------------------- state
VARIABLES
  global_step,
  n_pc, n_x, n_means, n_hot, n_loss,
  m_pc, m_x1, m_x2, m_steps, m_mode, m_simple, m_res, m_share, m_prev,
  i_pc, caller_features, features, aliased, inputs_old, initial_output, samples,
  more_steps,
  p_pc, mode, is_2d, startup_steps, means, unnormalize, called, ae, hot, kl, emb,
  c_z, dz, fed, draw, z, losses

nearestVars == <<n_pc, n_x, n_means, n_hot, n_loss>>

mixVars == <<m_pc, m_x1, m_x2, m_steps, m_mode, m_simple, m_res, m_share, m_prev>>

inferVars == <<i_pc, caller_features, features, aliased, inputs_old, initial_output,
               samples, more_steps>>

passVars == <<p_pc, mode, is_2d, startup_steps, means, unnormalize, called, ae, hot,
              kl, emb, c_z, dz, fed, draw, z, losses>>

vars == <<global_step, nearestVars, mixVars, inferVars, passVars>>

IdleNearest ==
  /\ n_pc = "idle" /\ n_x = << >> /\ n_means = << >> /\ n_hot = << >> /\ n_loss = 0

IdleMix ==
  /\ m_pc = "idle" /\ m_x1 = << >> /\ m_x2 = << >> /\ m_steps = 1
  /\ m_mode = "lin" /\ m_simple = FALSE /\ m_res = << >> /\ m_share = 0 /\ m_prev = 0

IdleInfer ==
  /\ i_pc = "idle" /\ caller_features = << >> /\ features = << >> /\ aliased = FALSE
  /\ inputs_old = << >> /\ initial_output = << >> /\ samples = << >> /\ more_steps = 0

IdlePass ==
  /\ p_pc = "idle" /\ mode = "TRAIN" /\ is_2d = FALSE /\ startup_steps = 1
  /\ means = << >> /\ unnormalize = << >> /\ called = {} /\ ae = << >> /\ hot = << >>
  /\ kl = 0 /\ emb = << >> /\ c_z = << >> /\ dz = << >> /\ fed = << >> /\ draw = 0
  /\ z = << >> /\ losses = << >>

\* --------------------------------------------------- kmeans, run on its own
\* A row of x: kmeans is handed l2-normalized rows, components within [-1, 1].
XRow == [Idx -> {-1, 0, 1}]

MeansRow == [Idx -> (-MaxC)..MaxC]

XFlat == UNION {[1..n -> XRow] : n \in 1..MaxRows}

InitNearest ==
  /\ global_step = 0
  /\ n_pc = "start"
  /\ n_x \in XFlat
  /\ n_means \in [Codes -> MeansRow]
  /\ n_hot = << >>
  /\ n_loss = 0
  /\ IdleMix /\ IdleInfer /\ IdlePass

\* kmeans, line 140: x_means_hot = nearest(x, means, hparams)
KmeansNearest ==
  /\ n_pc = "start"
  /\ n_hot' = nearest(n_x, n_means)
  /\ n_pc' = "nearest"
  /\ UNCHANGED <<global_step, n_x, n_means, n_loss, mixVars, inferVars, passVars>>

\* kmeans, lines 141-143: the gather from means and the loss
KmeansLoss ==
  /\ n_pc = "nearest"
  /\ n_loss' = kmeans(n_x, n_means)[2]
  /\ n_pc' = "done"
  /\ UNCHANGED <<global_step, n_x, n_means, n_hot, mixVars, inferVars, passVars>>

NextNearest == KmeansNearest \/ KmeansLoss

SpecNearest == InitNearest /\ [][NextNearest]_vars

\* C2: the index nearest marks for a row of x is an index of a row of the means
\* table (the table kmeans gathers from) at minimal squared Euclidean distance
\* from that row of x.
C2_NearestIsEuclideanNearest ==
  n_pc \in {"nearest", "done"} =>
    \A r \in DOMAIN n_x : \A j \in Codes :
      SqDist(n_x[r], n_means[Argmax(n_hot[r])]) <= SqDist(n_x[r], n_means[j])

\* ------------------------------------------------------ mix, run on its own
min_prob == 0

max_prob == One

\* Values of tf.random_uniform, in hundredths of [0, 1).
UDraws == {0, min_value, One \div 2, One - 1}

XVals == {-One, 0, One}

InitMix ==
  /\ global_step = 0
  /\ m_pc = "ready"
  /\ m_x1 \in [Idx -> XVals]
  /\ m_x2 \in [Idx -> XVals]
  /\ m_steps \in 1..MaxSteps
  /\ m_mode \in {"lin", "exp"}
  /\ m_simple \in BOOLEAN
  /\ m_res = << >>
  /\ m_share = 0
  /\ m_prev = 0
  /\ IdleNearest /\ IdleInfer /\ IdlePass

\* One evaluation of mix(x1, x2, steps, mode=..., simple=...) at the current
\* global step.
MixCall ==
  /\ m_pc = "ready"
  /\ \E u \in [Idx -> UDraws] :
       m_res' = mix(m_x1, m_x2, m_steps, min_prob, max_prob, m_mode, m_simple,
                    global_step, u)
  /\ m_share' = MixAlphaP(m_steps, min_prob, max_prob, m_mode, global_step)
  /\ m_prev' = m_share
  /\ m_pc' = "mixed"
  /\ UNCHANGED <<global_step, m_x1, m_x2, m_steps, m_mode, m_simple, nearestVars,
               inferVars, passVars>>

\* The optimizer advances the global step between two evaluations.
MixTrainStep ==
  /\ m_pc = "mixed"
  /\ global_step < MaxGlobalStep
  /\ global_step' = global_step + 1
  /\ m_pc' = "ready"
  /\ m_res' = << >>
  /\ UNCHANGED <<m_x1, m_x2, m_steps, m_mode, m_simple, m_share, m_prev,
               nearestVars, inferVars, passVars>>

NextMix == MixCall \/ MixTrainStep

SpecMix == InitMix /\ [][NextMix]_vars

Put(d, k, v) == [x \in DOMAIN d \cup {k} |-> IF x = k THEN v ELSE d[x]]

Rank(t) == Len(t.shape)

\* tf.expand_dims(t, axis), axis counted from 0; defined for axis <= rank.
ExpandDims(t, axis) ==
  [t EXCEPT !.shape = SubSeq(t.shape, 1, axis) \o <<1>>
                      \o SubSeq(t.shape, axis + 1, Len(t.shape))]

\* Largest rank and largest dimension of a caller's inputs tensor, and the
\* largest token a sample holds.
MaxRank == 4
MaxDim == 2
MaxTok == 1

how_many_more_steps == 2

InputTensors ==
  UNION {[shape : [1..r -> 1..MaxDim], data : {2}] : r \in 1..MaxRank}

PartialTargets == {[shape |-> <<1, 1, 1, 1>>, data |-> 1]}

EmptyDict == << >>

CallerDicts ==
  {EmptyDict}
  \cup {Put(EmptyDict, "inputs", t) : t \in InputTensors}
  \cup {Put(EmptyDict, "partial_targets", t) : t \in PartialTargets}
  \cup {Put(Put(EmptyDict, "inputs", t), "partial_targets", pt) :
          t \in InputTensors, pt \in PartialTargets}

\* What tf.concat(self._data_parallelism(tf.argmax, sharded_logits, 4), 0) may be.
Samples(batch) == {[shape |-> <<batch, 1, 1, 1>>, data |-> tok] : tok \in 0..MaxTok}

InitInfer ==
  /\ global_step = 0
  /\ i_pc = "called"
  /\ caller_features \in {<< >>} \cup {<<d>> : d \in CallerDicts}
  /\ features = EmptyDict
  /\ aliased = FALSE
  /\ inputs_old = << >>
  /\ initial_output = << >>
  /\ samples = << >>
  /\ more_steps = 0
  /\ IdleNearest /\ IdleMix /\ IdlePass

\* The dict the caller holds after the call: infer writes through the caller's
\* dict unless it replaced a None or empty one by a dict of its own.
CallerDict == IF aliased THEN features ELSE caller_features[1]

\* lines 330-335: the features default, inputs_old, the expansion of a rank-<4
\* inputs.  tf.expand_dims(x, 2) raises on a tensor of rank below 2.
InferBegin ==
  /\ i_pc = "called"
  /\ LET own == caller_features = << >> \/ caller_features[1] = EmptyDict
         f == IF own THEN EmptyDict ELSE caller_features[1]
         expand == "inputs" \in DOMAIN f /\ Rank(f["inputs"]) < 4
     IN  /\ aliased' = ~own
         /\ IF expand /\ Rank(f["inputs"]) < 2
            THEN /\ features' = f
                 /\ inputs_old' = <<f["inputs"]>>
                 /\ i_pc' = "raised"
            ELSE IF expand
            THEN /\ features' = Put(f, "inputs", ExpandDims(f["inputs"], 2))
                 /\ inputs_old' = <<f["inputs"]>>
                 /\ i_pc' = "begun"
            ELSE /\ features' = f
                 /\ inputs_old' = << >>
                 /\ i_pc' = "begun"
  /\ UNCHANGED <<global_step, caller_features, initial_output, samples, more_steps,
                 nearestVars, mixVars, passVars>>

\* lines 338-344: the initial targets; features["inputs"] raises KeyError when
\* there is neither partial_targets nor inputs.
InferInitialOutput ==
  /\ i_pc = "begun"
  /\ IF "partial_targets" \in DOMAIN features
     THEN /\ initial_output' = <<features["partial_targets"]>>
          /\ features' = Put(features, "targets", features["partial_targets"])
          /\ i_pc' = "targets"
     ELSE IF "inputs" \in DOMAIN features
     THEN LET batch_size == features["inputs"].shape[1]
              zeros == [shape |-> <<batch_size, 1, 1, 1>>, data |-> 0]
          IN  /\ initial_output' = <<zeros>>
              /\ features' = Put(features, "targets", zeros)
              /\ i_pc' = "targets"
     ELSE /\ i_pc' = "raised"
          /\ UNCHANGED <<initial_output, features>>
  /\ UNCHANGED <<global_step, caller_features, aliased, inputs_old, samples,
                 more_steps, nearestVars, mixVars, passVars>>

\* lines 345-348: the first pass of model_fn and its samples.  model_fn_body
\* reads features["inputs"] (line 324): KeyError when it is missing.
InferFirstPass ==
  /\ i_pc = "targets"
  /\ IF "inputs" \in DOMAIN features
     THEN /\ \E s \in Samples(features["targets"].shape[1]) : samples' = <<s>>
          /\ i_pc' = "sampled"
     ELSE /\ i_pc' = "raised"
          /\ UNCHANGED samples
  /\ UNCHANGED <<global_step, caller_features, features, aliased, inputs_old,
                 initial_output, more_steps, nearestVars, mixVars, passVars>>

\* lines 352-358: one of the how_many_more_steps further passes.
InferMoreSteps ==
  /\ i_pc = "sampled"
  /\ more_steps < how_many_more_steps
  /\ features' = Put(features, "targets", samples[1])
  /\ \E s \in Samples(samples[1].shape[1]) : samples' = <<s>>
  /\ more_steps' = more_steps + 1
  /\ UNCHANGED <<global_step, i_pc, caller_features, aliased, inputs_old,
                 initial_output, nearestVars, mixVars, passVars>>

InferRestoreSkipped(f, old) == f

\* lines 360-361: features["inputs"] = inputs_old when inputs_old is not None.
InferRestore(f, old) == IF old # << >> THEN Put(f, "inputs", old[1]) ELSE f

\* lines 360-362: the restore and the return.
InferReturn ==
  /\ i_pc = "sampled"
  /\ more_steps = how_many_more_steps
  /\ features' = InferRestore(features, inputs_old)
  /\ i_pc' = "returned"
  /\ UNCHANGED <<global_step, caller_features, aliased, inputs_old, initial_output,
                 samples, more_steps, nearestVars, mixVars, passVars>>

NextInfer ==
  \/ InferBegin
  \/ InferInitialOutput
  \/ InferFirstPass
  \/ InferMoreSteps
  \/ InferReturn

SpecInfer == InitInfer /\ [][NextInfer]_vars

\* C4: whenever infer returns, features["inputs"] of the caller's dict is the
\* tensor the caller passed in, whether infer expanded it (rank below 4) or not.
C4_InputsUntouched ==
  i_pc = "returned" =>
    /\ "inputs" \in DOMAIN CallerDict
    /\ "inputs" \in DOMAIN caller_features[1]
    /\ CallerDict["inputs"] = caller_features[1]["inputs"]

\* infer has returned after expanding a rank-3 inputs and restoring it.
C4_Witness ==
  /\ i_pc = "returned"
  /\ inputs_old # << >>
  /\ Rank(inputs_old[1]) = 3
  /\ CallerDict["inputs"] = inputs_old[1]

\* ------------------------------------------------- ae_transformer_internal
num_compress_steps == 4

\* tf.layers.dense with a diagonal kernel w and a bias b.
Dense(v, layer) == [i \in Idx |-> layer.w * v[i] + layer.b]

\* tf.matmul(hot_flat, means): the row of means the one-hot row selects.
MatMul(hot_row, table) ==
  [i \in Idx |-> SumTo([k \in Codes |-> hot_row[k] * table[k][i]], v_size)]

\* ae_compress(x, is_2d, hparams, name) on the l2-normalized state cur that
\* compress and mid_conv made of x: the un-quantized state, the code, the loss.
\* cur_n = kmeans_lr_factor * cur + (1 - kmeans_lr_factor) * stop_gradient(cur)
\* has the value of cur.
ae_compress(cur, table, layer) ==
  LET cur_n == cur
      km == kmeans(<<cur_n>>, table)
  IN  [ae |-> Dense(cur, layer), hot |-> km[1][1], loss |-> km[2]]

\* ae_embed(hot, hparams, name, reuse)
ae_embed(hot_row, table, layer) == Dense(MatMul(hot_row, table), layer)

AeDecompressAlwaysCond(z_in, ae_in, x, twod, md, steps, step, u_mix, u_cond) ==
  LET z1 == mix(z_in, ae_in, steps, min_prob, max_prob, "lin", FALSE, step, u_mix)
      prob_z == Mul(inverse_exp_decay(steps, step), 80)
      z2 == IF u_cond < prob_z THEN z1 ELSE ae_in
  IN  [fed |-> z2,
       out |-> [op |-> "decompress", latent |-> z2, gold |-> x,
                autoregressive |-> ~twod]]

\* ae_decompress(z, ae, x, is_2d, hparams, name) at global step `step`: u_mix
\* and u_cond are the draws of mix and of tf.cond's tf.random_uniform([]).
\* fed is the tensor handed to dropout; the dropout, the decompression stack
\* and the autoregressive decoder are learnt, and out records their operands.
ae_decompress(z_in, ae_in, x, twod, md, steps, step, u_mix, u_cond) ==
  LET z1 == mix(z_in, ae_in, steps, min_prob, max_prob, "lin", FALSE, step, u_mix)
      prob_z0 == Mul(inverse_exp_decay(steps, step), 80)
      prob_z == IF md = "TRAIN" THEN prob_z0 ELSE One
      z2 == IF u_cond < prob_z THEN z1 ELSE ae_in
  IN  [fed |-> z2,
       out |-> [op |-> "decompress", latent |-> z2, gold |-> x,
                autoregressive |-> ~twod]]

\* The functions of the file each function calls, from its body.
CallsAttend == {"attend"}

CallsResidualConv == {"residual_conv"}

CallsCompress(has_c) ==
  {"compress"}
  \cup (IF num_compress_steps > 0
        THEN CallsResidualConv \cup (IF has_c THEN CallsAttend ELSE {})
        ELSE {})

CallsNearest == {"nearest"}

CallsKmeans == {"kmeans"} \cup CallsNearest

CallsAeCompress == {"ae_compress"} \cup CallsCompress(FALSE) \cup CallsKmeans

CallsAeEmbed == {"ae_embed"}

CallsEncode == {"encode"}

CallsDecode == {"decode"}

CallsDecompressStep(has_c) ==
  {"decompress_step"} \cup (IF has_c THEN CallsAttend ELSE {})

CallsMix == {"mix"}

CallsAeDecompressNoMix(twod) ==
  {"ae_decompress"}
  \cup (IF num_compress_steps > 0
        THEN CallsResidualConv \cup CallsDecompressStep(FALSE)
        ELSE {})
  \cup (IF twod THEN {} ELSE CallsDecode)

CallsAeDecompress(twod) ==
  {"ae_decompress"} \cup CallsMix
  \cup (IF num_compress_steps > 0
        THEN CallsResidualConv \cup CallsDecompressStep(FALSE)
        ELSE {})
  \cup (IF twod THEN {} ELSE CallsDecode)

CallsAeTransformerInternal(twod) ==
  {"ae_transformer_internal"} \cup CallsEncode \cup CallsAeCompress
  \cup CallsAeEmbed \cup CallsDecode \cup CallsAeDecompress(twod)

\* The l2-normalized states compress can hand on: the signed unit rows.
UnitRows ==
  {[i \in Idx |-> IF i = j THEN sgn ELSE 0] : j \in Idx, sgn \in {-1, 1}}

\* The z_to_dense tables of the passes: code k sits on axis k (modulo
\* hidden_size) at distance g, the nearest and the farthest g.
MeansTables ==
  {[k \in Codes |-> [i \in Idx |-> IF i = ((k - 1) % hidden_size) + 1 THEN g ELSE 0]] :
     g \in {1, MaxC}}

DenseLayers == {[w |-> 1, b |-> 0], [w |-> 2, b |-> 1]}

\* The logits c_z of the passes: all equal, or one code ahead.
Logits == {[k \in Codes |-> 0]} \cup {OneHot(k) : k \in Codes}

\* Draws of mix in the passes: one below every alpha_p, one above every
\* alpha_p short of 1.0.
UExtremes == {0, One - 1}

InitPass ==
  /\ global_step \in 0..MaxGlobalStep
  /\ p_pc = "ready"
  /\ mode \in {"TRAIN", "EVAL", "PREDICT"}
  /\ is_2d \in BOOLEAN
  /\ startup_steps \in 1..MaxSteps
  /\ means \in MeansTables
  /\ unnormalize \in DenseLayers
  /\ called = {} /\ ae = << >> /\ hot = << >> /\ kl = 0 /\ emb = << >>
  /\ c_z = << >> /\ dz = << >> /\ fed = << >> /\ draw = 0 /\ z = << >>
  /\ losses = << >>
  /\ IdleNearest /\ IdleMix /\ IdleInfer

\* TransformerAE.model_fn_body: one pass of ae_transformer_internal, lines
\* 285-316.  cur is what compress and mid_conv make of the targets, logits what
\* the decoder and mask_context make of emb and the encoded inputs.
ModelFnBody ==
  /\ p_pc = "ready"
  /\ \E cur \in UnitRows :
       LET c == ae_compress(cur, means, unnormalize)
           e == ae_embed(c.hot, means, unnormalize)
       IN  /\ ae' = c.ae
           /\ emb' = e
           /\ dz' = e
           /\ kl' = c.loss
           /\ \E logits \in Logits :
                /\ c_z' = logits
                /\ hot' = IF mode = "PREDICT" THEN OneHot(Argmax(logits)) ELSE c.hot
                /\ losses' =
                     [kl |-> Mul(inverse_exp_decay((startup_steps * 8) \div 10,
                                                   global_step), c.loss),
                      reconstruction |->
                        [labels |-> c.hot, logits |-> logits,
                         weight |-> inverse_exp_decay(startup_steps, global_step)]]
           /\ \E u_mix \in [Idx -> UExtremes], u_cond \in UDraws :
                LET d == ae_decompress(emb', ae', "targets", is_2d, mode,
                                       startup_steps, global_step, u_mix, u_cond)
                IN  /\ draw' = u_cond
                    /\ fed' = d.fed
                    /\ z' = d.out
  /\ called' = CallsAeTransformerInternal(is_2d)
  /\ p_pc' = "done"
  /\ UNCHANGED <<global_step, mode, is_2d, startup_steps, means, unnormalize,
                 nearestVars, mixVars, inferVars>>

\* The next batch; in TRAIN mode the optimizer has advanced the global step.
NextBatch ==
  /\ p_pc = "done"
  /\ global_step' = IF mode = "TRAIN" /\ global_step < MaxGlobalStep
                    THEN global_step + 1 ELSE global_step
  /\ p_pc' = "ready"
  /\ called' = {} /\ ae' = << >> /\ hot' = << >> /\ kl' = 0 /\ emb' = << >>
  /\ c_z' = << >> /\ dz' = << >> /\ fed' = << >> /\ draw' = 0 /\ z' = << >>
  /\ losses' = << >>
  /\ UNCHANGED <<mode, is_2d, startup_steps, means, unnormalize,
                 nearestVars, mixVars, inferVars>>

NextPass == ModelFnBody \/ NextBatch

SpecPass == InitPass /\ [][NextPass]_vars

\* C1 as stated: when a pass returns, kmeans/nearest, dae, vae and mix have each
\* been invoked.
C1_AllFourWired ==
  p_pc = "done" => {"kmeans", "nearest", "dae", "vae", "mix"} \subseteq called

\* C1 as amended: when a pass returns, kmeans/nearest and mix have each been
\* invoked; dae and vae are defined in the file and invoked by no pass.
C1_KmeansAndMixWired ==
  p_pc = "done" =>
    /\ {"kmeans", "nearest", "mix"} \subseteq called
    /\ called \cap {"dae", "vae", "gumbel_sample"} = {}

\* A pass has returned, having run the quantization and the blend.
C1_Witness ==
  /\ p_pc = "done"
  /\ "ae_transformer_internal" \in called
  /\ "nearest" \in called
  /\ "mix" \in called

\* C3: in PREDICT mode the returned z is decompressed from the codes
\* one_hot(argmax(c_z)) the decoder predicted, for some draw of mix.
C3_PredictDecompressesPredictedCodes ==
  (p_pc = "done" /\ mode = "PREDICT") =>
    /\ hot = OneHot(Argmax(c_z))
    /\ \E u_mix \in [Idx -> UExtremes] :
         z = ae_decompress(ae_embed(hot, means, unnormalize), ae, "targets", is_2d,
                           mode, startup_steps, global_step, u_mix, draw).out

====
